---- MODULE Spec2Model ----
(***************************************************************************)
(* Model of flopy.mf6: the package registry of mfbase.PackageContainer     *)
(* (packagelist, the three lookup dictionaries and the simulation's        *)
(* mfdata dictionary it keeps in step) and the path management of          *)
(* _file_management.MFFileMgmt.                                            *)
(*                                                                         *)
(* Strings are sequences of one-character strings, so that str.lower(),    *)
(* slicing and str.replace() are computed and not assumed.  Python's None  *)
(* is the one-element sequence None, which no string of the model equals.  *)
(***************************************************************************)
EXTENDS Integers, Sequences, FiniteSets, TLC

VARIABLES
    packagelist,             \* PackageContainer.packagelist
    package_type_dict,       \* PackageContainer.package_type_dict
    package_name_dict,       \* PackageContainer.package_name_dict
    package_filename_dict,   \* PackageContainer.package_filename_dict
    mfdata,                  \* simulation_data.mfdata, an insertion-ordered dict
    last,                    \* history: the most recent registry call and the mfdata it started from
    renamed,                 \* history: packages passed to _rename_package since they were last added
    sim_path,                            \* MFFileMgmt._sim_path, as str() gives it
    model_relative_path,                 \* MFFileMgmt.model_relative_path
    last_loaded_sim_path,                \* MFFileMgmt._last_loaded_sim_path
    last_loaded_model_relative_path,     \* MFFileMgmt._last_loaded_model_relative_path
    loaded,                  \* history: the root and the mapping as they were when last copied
    existing_file_dict,      \* MFFileMgmt.existing_file_dict, an insertion-ordered dict
    files,                   \* the disk: the paths that are regular files
    folders,                 \* the disk: the directories os.makedirs created
    copied,                  \* history: the most recent copy_files call
    in_pkg_list              \* the arguments and the outcome of an _in_pkg_list call

regvars == <<packagelist, package_type_dict, package_name_dict,
             package_filename_dict, mfdata, last, renamed>>

filevars == <<sim_path, model_relative_path, last_loaded_sim_path,
              last_loaded_model_relative_path, loaded>>

copyvars == <<existing_file_dict, files, folders, copied>>

callvars == <<in_pkg_list>>

vars == <<regvars, filevars, copyvars, callvars>>

-----------------------------------------------------------------------------
(* Bounds of the model *)

\* most packages held by the registry at once
MaxPackages == 3
\* longest mfdata key a rename may produce
MaxKeyLen == 5
\* most entries of the initial mfdata
MaxStore == 3

-----------------------------------------------------------------------------
(* Python values *)

None == <<"None">>

UpperCase == <<"A","B","C","D","E","F","G","H","I","J","K","L","M",
               "N","O","P","Q","R","S","T","U","V","W","X","Y","Z">>

LowerCase == <<"a","b","c","d","e","f","g","h","i","j","k","l","m",
               "n","o","p","q","r","s","t","u","v","w","x","y","z">>

\* the lower-case letter of each upper-case letter
LowerOf ==
    [c \in {UpperCase[i] : i \in 1..Len(UpperCase)} |->
        LowerCase[CHOOSE i \in 1..Len(UpperCase) : UpperCase[i] = c]]

LowerChar(c) == IF c \in DOMAIN LowerOf THEN LowerOf[c] ELSE c

\* str.lower()
lower(s) == [i \in 1..Len(s) |-> LowerChar(s[i])]

Min(a, b) == IF a < b THEN a ELSE b

Max(a, b) == IF a < b THEN b ELSE a

\* s[i:] for a 0-based, possibly negative, start i
SliceFrom(s, i) ==
    LET start == IF i < 0 THEN Max(Len(s) + i, 0) ELSE Min(i, Len(s))
    IN  SubSeq(s, start + 1, Len(s))

\* s[:j] for a 0-based, possibly negative, stop j
SliceTo(s, j) ==
    LET stop == IF j < 0 THEN Max(Len(s) + j, 0) ELSE Min(j, Len(s))
    IN  SubSeq(s, 1, stop)

\* x in lst
InList(x, lst) == \E i \in 1..Len(lst) : lst[i] = x

\* list.remove(x): drops the first occurrence (x is known to be in lst)
ListRemove(lst, x) ==
    LET i == CHOOSE k \in 1..Len(lst) :
                 lst[k] = x /\ \A j \in 1..(k - 1) : lst[j] # x
    IN  SubSeq(lst, 1, i - 1) \o SubSeq(lst, i + 1, Len(lst))

EmptyDict == [k \in {} |-> 0]

\* d[k] = v
DictSet(d, k, v) == [x \in (DOMAIN d) \cup {k} |-> IF x = k THEN v ELSE d[x]]

\* del d[k]
DictDel(d, k) == [x \in (DOMAIN d) \ {k} |-> d[x]]

-----------------------------------------------------------------------------
(* The insertion-ordered dictionary mfdata: a sequence of [key, val]       *)
(* entries with pairwise distinct keys.                                    *)

StoreKeys(d) == {d[i].key : i \in 1..Len(d)}

StoreHas(d, key) == key \in StoreKeys(d)

StoreGet(d, key) == d[CHOOSE i \in 1..Len(d) : d[i].key = key].val

\* del d[key]
StoreDel(d, key) == SelectSeq(d, LAMBDA e : e.key # key)

\* d[key] = val: in place when the key exists, appended otherwise
StorePut(d, key, val) ==
    IF StoreHas(d, key)
    THEN [i \in 1..Len(d) |-> IF d[i].key = key THEN [key |-> key, val |-> val] ELSE d[i]]
    ELSE Append(d, [key |-> key, val |-> val])

-----------------------------------------------------------------------------
(* The packages handed to the registry.  A package is an object: it is     *)
(* compared by identity (its index here) and _rename_package, add_package  *)
(* and remove_package read its attributes and assign none of them.         *)

Catalog == <<
    [package_name |-> <<"A","b">>,     package_type |-> <<"W">>,
     filename     |-> <<"F">>,         path |-> << <<"m">>, <<"A","b">> >>],
    [package_name |-> <<"a","b","c">>, package_type |-> <<"W">>,
     filename     |-> None,            path |-> << <<"X">> >>],
    [package_name |-> None,            package_type |-> <<"a","b">>,
     filename     |-> <<"A","B">>,     path |-> << <<"m">>, <<"a","b">>, <<"k">> >>],
    [package_name |-> <<"A","B","C">>, package_type |-> <<"a","b">>,
     filename     |-> <<"f">>,         path |-> << <<"n">>, <<"x">> >>]
  >>

Packages == 1..Len(Catalog)

package_name(p) == Catalog[p].package_name

package_type(p) == Catalog[p].package_type

filename(p) == Catalog[p].filename

path(p) == Catalog[p].path

\* the new_name arguments of _rename_package
NewNames == { <<"Z">>, <<"a","b","c">> }

\* the packages and new names of the runs that vary the contents of mfdata
StorePackages == {1, 3}

StoreNewNames == { <<"Z">>, <<"k">> }

\* the keys mfdata may hold when the registry is created
KeyUniverse == <<
    << <<"m">>, <<"A","b">> >>,
    << <<"m">>, <<"A","b">>, <<"p">> >>,
    << <<"m">> >>,
    << <<"m">>, <<"Z">>, <<"A","b">>, <<"p">> >>,
    << <<"m">>, <<"a","b">>, <<"k">>, <<"p">> >>,
    << <<"m">>, <<"a","b">> >>,
    << <<"n">>, <<"x">>, <<"p">> >>
  >>

\* the mfdata holding the keys of KeyUniverse indexed by I, each with its own value
RECURSIVE InitialStore(_, _)
InitialStore(I, n) ==
    IF n > Len(KeyUniverse) THEN << >>
    ELSE (IF n \in I THEN << [key |-> KeyUniverse[n], val |-> n] >> ELSE << >>)
         \o InitialStore(I, n + 1)

-----------------------------------------------------------------------------
(* Paths.  A path string is a sequence of characters; a pathlib.Path is    *)
(* [root, parts].  The process runs on POSIX with the working directory    *)
(* Cwd and the home directory Home.                                        *)

TypeError == <<"TypeError">>

KeyError == <<"KeyError">>

Cwd == [root |-> TRUE, parts |-> << <<"c">> >>]

Home == [root |-> TRUE, parts |-> << <<"h">> >>]

\* str.replace(ch, "")
replace(s, ch) == SelectSeq(s, LAMBDA c : c # ch)

\* os.path.isabs
isabs(s) == Len(s) > 0 /\ s[1] = "/"

\* os.path.join(a, b); None is no path
join(a, b) ==
    IF a = None \/ b = None THEN TypeError
    ELSE IF isabs(b) THEN b
    ELSE IF a = << >> \/ a[Len(a)] = "/" THEN a \o b
    ELSE a \o << "/" >> \o b

\* s.split("/")
RECURSIVE split(_)
split(s) ==
    IF \A i \in 1..Len(s) : s[i] # "/" THEN << s >>
    ELSE LET i == CHOOSE k \in 1..Len(s) :
                      s[k] = "/" /\ \A j \in 1..(k - 1) : s[j] # "/"
         IN  << SubSeq(s, 1, i - 1) >> \o split(SubSeq(s, i + 1, Len(s)))

\* pathlib.Path(s): empty and "." components are dropped
Path(s) ==
    [root  |-> isabs(s),
     parts |-> SelectSeq(split(s), LAMBDA c : c # << >> /\ c # << "." >>)]

RECURSIVE join_parts(_)
join_parts(parts) ==
    IF parts = << >> THEN << >>
    ELSE IF Len(parts) = 1 THEN parts[1]
    ELSE parts[1] \o << "/" >> \o join_parts(Tail(parts))

\* str(path)
str(p) ==
    IF p.root THEN << "/" >> \o join_parts(p.parts)
    ELSE IF p.parts = << >> THEN << "." >>
    ELSE join_parts(p.parts)

\* Path.expanduser() for a leading "~" component
expanduser(p) ==
    IF ~p.root /\ p.parts # << >> /\ p.parts[1] = << "~" >>
    THEN [root |-> TRUE, parts |-> Home.parts \o Tail(p.parts)]
    ELSE p

\* Path.absolute()
absolute(p) ==
    IF p.root THEN p ELSE [root |-> TRUE, parts |-> Cwd.parts \o p.parts]

-----------------------------------------------------------------------------
(* MFFileMgmt *)

\* the path arguments of MFFileMgmt() and set_sim_path
RootInputs == { << "/", "r" >>, << "s" >>, << "~", "/", "u" >>, << "/" >> }

\* the path arguments of resolve_path
PathSpecs == { << "a" >>, << "/", "a" >>, << "'", "/", "a", "'" >>,
               << "\"", "a", "\"" >>, << "'" >>, << "a", "/", "b" >> }

\* the model names and the paths the models register for themselves
ModelNames == { "m1", "m2" }

RelativePaths == { << "x" >>, << "." >>, << "/", "q" >>, << >>,
                   << "x", "/", "y" >> }

\* the path set_sim_path stores
normal_sim_path(p) == str(absolute(expanduser(Path(p))))

\* no copy_files call yet
NoCopy ==
    [op |-> "none", copy_relative_only |-> FALSE, steps |-> << >>,
     outcome |-> [kind |-> "none", num_files_copied |-> 0, error |-> "none"]]

\* a disk without files, and no copy_files call yet
EmptyDisk ==
    /\ files = {}
    /\ folders = {}
    /\ copied = NoCopy

\* no _in_pkg_list call
NoCall ==
    in_pkg_list = [pkg_list |-> {}, pkg_type |-> None, pkg_name |-> None,
                   result |-> "none"]

\* MFFileMgmt.__init__
NewFileMgmt(p) ==
    /\ sim_path = normal_sim_path(p)
    /\ existing_file_dict = << >>
    /\ model_relative_path = EmptyDict
    /\ last_loaded_sim_path = None
    /\ last_loaded_model_relative_path = EmptyDict
    /\ loaded = [sim_path |-> None, model_relative_path |-> EmptyDict]

set_sim_path(p) ==
    /\ sim_path' = normal_sim_path(p)
    /\ UNCHANGED <<model_relative_path, last_loaded_sim_path,
                   last_loaded_model_relative_path, loaded, regvars, copyvars, callvars>>

\* the dictionary set_last_accessed_model_path leaves: every item of
\* model_relative_path copied over the entries kept from before
copied_model_paths ==
    [key \in (DOMAIN last_loaded_model_relative_path) \cup (DOMAIN model_relative_path) |->
        IF key \in DOMAIN model_relative_path
        THEN model_relative_path[key]
        ELSE last_loaded_model_relative_path[key]]

set_last_accessed_model_path ==
    /\ last_loaded_model_relative_path' = copied_model_paths
    /\ loaded' = [loaded EXCEPT !.model_relative_path = model_relative_path]
    /\ UNCHANGED <<sim_path, model_relative_path, last_loaded_sim_path, regvars, copyvars, callvars>>

set_last_accessed_path ==
    /\ last_loaded_sim_path' = sim_path
    /\ last_loaded_model_relative_path' = copied_model_paths
    /\ loaded' = [sim_path |-> sim_path, model_relative_path |-> model_relative_path]
    /\ UNCHANGED <<sim_path, model_relative_path, regvars, copyvars, callvars>>

\* a model registering its folder: model_relative_path[key] = rel
set_model_relative_path(key, rel) ==
    /\ model_relative_path' = DictSet(model_relative_path, key, rel)
    /\ UNCHANGED <<sim_path, last_loaded_sim_path,
                   last_loaded_model_relative_path, loaded, regvars, copyvars, callvars>>

get_sim_path(last_loaded_path) ==
    IF last_loaded_path THEN last_loaded_sim_path ELSE sim_path

\* get_model_path, were the live mapping read for the last loaded path too
get_model_path_live_mapping(key, last_loaded_path) ==
    IF key \in DOMAIN model_relative_path
    THEN join(get_sim_path(last_loaded_path), model_relative_path[key])
    ELSE IF last_loaded_path THEN KeyError ELSE sim_path

get_model_path(key, last_loaded_path) ==
    IF last_loaded_path
    THEN (IF key \in DOMAIN last_loaded_model_relative_path
          THEN join(last_loaded_sim_path, last_loaded_model_relative_path[key])
          ELSE KeyError)
    ELSE IF key \in DOMAIN model_relative_path
    THEN join(sim_path, model_relative_path[key])
    ELSE sim_path

\* the path arguments of strip_model_relative_path, and the tails joined
\* to a model's relative path to make more of them
Tails == { << "a" >>, << "a", "/", "b" >>, << ".", "/", "a" >>, << "a", "/" >>,
           << >>, << "." >>, << "/", "a" >> }

\* strip_model_relative_path, were the path returned as it came
strip_model_relative_path_unstripped(model_name, p) == p

\* Path(p).relative_to(other) raises no ValueError
is_relative_to(p, other) ==
    /\ p.root = other.root
    /\ Len(p.parts) >= Len(other.parts)
    /\ SubSeq(p.parts, 1, Len(other.parts)) = other.parts

\* Path(p).relative_to(other)
relative_to(p, other) ==
    [root |-> FALSE, parts |-> SubSeq(p.parts, Len(other.parts) + 1, Len(p.parts))]

strip_model_relative_path(model_name, p) ==
    IF model_name \notin DOMAIN model_relative_path THEN p
    ELSE LET model_rel_path == Path(model_relative_path[model_name])
         IN  IF \/ model_rel_path.root
                \/ str(model_rel_path) = << >>
                \/ str(model_rel_path) = << "." >>
             THEN p
             ELSE IF is_relative_to(Path(p), model_rel_path)
             THEN str(relative_to(Path(p), model_rel_path))
             ELSE str(Path(p))

\* resolve_path, were move_abs_paths ignored
resolve_path_keeps_abs(p, last_loaded_path, move_abs_paths) ==
    LET file_path == replace(replace(p, "'"), "\"")
    IN  IF isabs(file_path) THEN file_path
        ELSE join(get_sim_path(last_loaded_path), file_path)

\* resolve_path, were an absolute path placed under the selected root
resolve_path_rebases_abs(p, last_loaded_path, move_abs_paths) ==
    LET file_path == replace(replace(p, "'"), "\"")
    IN  IF isabs(file_path)
        THEN (IF move_abs_paths THEN get_sim_path(last_loaded_path)
              ELSE get_sim_path(last_loaded_path) \o file_path)
        ELSE join(get_sim_path(last_loaded_path), file_path)

resolve_path(p, last_loaded_path, move_abs_paths) ==
    LET file_path == replace(replace(p, "'"), "\"")
    IN  IF isabs(file_path)
        THEN (IF move_abs_paths THEN get_sim_path(last_loaded_path) ELSE file_path)
        ELSE join(get_sim_path(last_loaded_path), file_path)

-----------------------------------------------------------------------------
(* External files.  existing_file_dict is a sequence of MFFilePath records *)
(* [file_path, model_name] in insertion order, one per file_path; the disk *)
(* is the set of regular files and the set of directories made.            *)

\* most records existing_file_dict holds
MaxFiles == 2

\* the file_path arguments of add_ext_file
ExtFiles == { << "a" >>, << "/", "a" >>, << "'", "/", "a", "'" >>,
              << "b", "/", "a" >> }

\* the path arguments of set_sim_path while files are copied
CopyRoots == { << "/", "r" >>, << "/", "r", "/", "b" >> }

\* the model_name arguments of add_ext_file while files are copied
CopyModels == { "m1" }

\* the files the disk may hold at the start
DiskFiles == { << "/", "r", "/", "a" >>, << "/", "a" >> }

\* file_path in existing_file_dict
HasFile(d, file_path) == \E i \in 1..Len(d) : d[i].file_path = file_path

\* add_ext_file, were the record's model names replaced by the new one
add_ext_file_dict_replacing(d, file_path, model_name) ==
    IF HasFile(d, file_path)
    THEN [i \in 1..Len(d) |->
            IF d[i].file_path = file_path
            THEN [d[i] EXCEPT !.model_name = {model_name}]
            ELSE d[i]]
    ELSE Append(d, [file_path |-> file_path, model_name |-> {model_name}])

\* the existing_file_dict add_ext_file leaves
add_ext_file_dict(d, file_path, model_name) ==
    IF HasFile(d, file_path)
    THEN [i \in 1..Len(d) |->
            IF d[i].file_path = file_path /\ model_name \notin d[i].model_name
            THEN [d[i] EXCEPT !.model_name = @ \cup {model_name}]
            ELSE d[i]]
    ELSE Append(d, [file_path |-> file_path, model_name |-> {model_name}])

\* existing_file_dict holds at most MaxFiles records
add_ext_file(file_path, model_name) ==
    /\ HasFile(existing_file_dict, file_path) \/ Len(existing_file_dict) < MaxFiles
    /\ existing_file_dict' = add_ext_file_dict(existing_file_dict, file_path, model_name)
    /\ UNCHANGED <<files, folders, copied, filevars, regvars, callvars>>

\* s without its trailing separators
RECURSIVE rstrip_sep(_)
rstrip_sep(s) ==
    IF s # << >> /\ s[Len(s)] = "/" THEN rstrip_sep(SubSeq(s, 1, Len(s) - 1)) ELSE s

\* os.path.split(p)[0]
dirname(p) ==
    LET seps == {i \in 1..Len(p) : p[i] = "/"}
        head == IF seps = {} THEN << >>
                ELSE SubSeq(p, 1, CHOOSE i \in seps : \A j \in seps : j <= i)
    IN  IF \A i \in 1..Len(head) : head[i] = "/" THEN head ELSE rstrip_sep(head)

\* os.path.isfile(p) on the disk holding the files fs
isfile(fs, p) == p \in fs

\* os.path.exists(p) on the disk holding the files fs and the made folders ds:
\* a file, a made folder, or a folder above one of them
exists(fs, ds, p) ==
    \/ p \in fs \cup ds
    \/ \E q \in fs \cup ds :
          /\ Len(q) > Len(p)
          /\ SubSeq(q, 1, Len(p)) = p
          /\ (p[Len(p)] = "/" \/ q[Len(p) + 1] = "/")

\* the test of copy_files, were the old path not looked up on the disk
copy_wanted_any_file(fs, file_path, path_old, copy_relative_only) ==
    ~isabs(file_path) \/ ~copy_relative_only

\* the first test of copy_files on a record
copy_wanted(fs, file_path, path_old, copy_relative_only) ==
    isfile(fs, path_old) /\ (~isabs(file_path) \/ ~copy_relative_only)

\* The loop of copy_files over existing_file_dict.values().  st holds the
\* disk, num_files_copied, the copyfile calls made and, for each record
\* the loop came to, whether its copyfile call returned;
\* the copyfile call number fail_at raises.  The handler of that error
\* reads self.structure, which MFFileMgmt does not have.
RECURSIVE copy_loop(_, _, _, _)
copy_loop(values, st, copy_relative_only, fail_at) ==
    IF values = << >> THEN st
    ELSE LET mffile_path == Head(values)
             path_old == resolve_path(mffile_path.file_path, TRUE, FALSE)
             path_new == resolve_path(mffile_path.file_path, FALSE, FALSE)
             new_folders == dirname(path_new)
             made == IF exists(st.files, st.folders, new_folders)
                     THEN st.folders ELSE st.folders \cup {new_folders}
             skip == [st EXCEPT !.steps = Append(@, FALSE)]
         IN  IF copy_wanted(st.files, mffile_path.file_path, path_old, copy_relative_only)
                /\ path_old # path_new
             THEN (IF st.calls + 1 = fail_at
                   THEN [skip EXCEPT !.folders = made, !.calls = @ + 1,
                                     !.error = "AttributeError"]
                   ELSE copy_loop(Tail(values),
                                  [st EXCEPT !.files = @ \cup {path_new},
                                             !.folders = made,
                                             !.calls = @ + 1,
                                             !.num_files_copied = @ + 1,
                                             !.steps = Append(@, TRUE)],
                                  copy_relative_only, fail_at))
             ELSE copy_loop(Tail(values), skip, copy_relative_only, fail_at)

\* copy_files, with the copyfile call number fail_at raising (0: none does)
copy_files(copy_relative_only, fail_at) ==
    LET st0 == [files |-> files, folders |-> folders, calls |-> 0,
                num_files_copied |-> 0, steps |-> << >>, error |-> "none"]
        st == IF last_loaded_sim_path # None
              THEN copy_loop(existing_file_dict, st0, copy_relative_only, fail_at)
              ELSE st0
    IN  /\ files' = st.files
        /\ folders' = st.folders
        /\ copied' = [op |-> "copy_files",
                      copy_relative_only |-> copy_relative_only,
                      steps |-> st.steps,
                      outcome |-> IF st.error = "none"
                                  THEN [kind |-> "return",
                                        num_files_copied |-> st.num_files_copied,
                                        error |-> "none"]
                                  ELSE [kind |-> "raise",
                                        num_files_copied |-> st.num_files_copied,
                                        error |-> st.error]]
        /\ UNCHANGED <<existing_file_dict, filevars, regvars, callvars>>

-----------------------------------------------------------------------------
(* PackageContainer *)

EmptyRegistry ==
    /\ packagelist = << >>
    /\ package_type_dict = EmptyDict
    /\ package_name_dict = EmptyDict
    /\ package_filename_dict = EmptyDict
    /\ last = [op |-> "init", pkg |-> 0, new_name |-> None, mfdata |-> << >>]
    /\ renamed = {}

\* PackageContainer.__init__, beside an MFFileMgmt that stays as created
Init ==
    /\ EmptyRegistry
    /\ mfdata = << >>
    /\ NewFileMgmt(<< "/", "r" >>)
    /\ EmptyDisk
    /\ NoCall

StoreInit ==
    /\ EmptyRegistry
    /\ \E I \in SUBSET (1..Len(KeyUniverse)) :
          /\ Cardinality(I) <= MaxStore
          /\ mfdata = InitialStore(I, 1)
    /\ NewFileMgmt(<< "/", "r" >>)
    /\ EmptyDisk
    /\ NoCall

\* MFFileMgmt.__init__, beside a registry that stays empty
FileInit ==
    /\ EmptyRegistry
    /\ mfdata = << >>
    /\ \E p \in RootInputs : NewFileMgmt(p)
    /\ EmptyDisk
    /\ NoCall

\* MFFileMgmt.__init__ on a disk that holds some files
CopyInit ==
    /\ EmptyRegistry
    /\ mfdata = << >>
    /\ NewFileMgmt(<< "/", "r" >>)
    /\ files \in SUBSET DiskFiles
    /\ folders = {}
    /\ copied = NoCopy
    /\ NoCall

\* add_package, the package_type_dict part
add_type_dict(d, package) ==
    LET d1 == IF package_type(package) \notin DOMAIN d
              THEN DictSet(d, lower(package_type(package)), << >>)
              ELSE d
    IN  DictSet(d1, lower(package_type(package)),
                Append(d1[lower(package_type(package))], package))

\* The registry is handed a package it does not hold, and holds at most
\* MaxPackages.
add_package(package) ==
    /\ Len(packagelist) < MaxPackages
    /\ ~InList(package, packagelist)
    /\ packagelist' = Append(packagelist, package)
    /\ package_name_dict' =
          IF package_name(package) # None
          THEN DictSet(package_name_dict, lower(package_name(package)), package)
          ELSE package_name_dict
    /\ package_filename_dict' =
          IF filename(package) # None
          THEN DictSet(package_filename_dict, lower(filename(package)), package)
          ELSE package_filename_dict
    /\ package_type_dict' = add_type_dict(package_type_dict, package)
    /\ last' = [op |-> "add", pkg |-> package, new_name |-> None, mfdata |-> mfdata]
    /\ renamed' = renamed \ {package}
    /\ UNCHANGED <<mfdata, filevars, copyvars, callvars>>

\* is_subkey, were the key compared with the path as a whole
is_subkey_whole_key(ppath, key) == key = ppath

\* the is_subkey loop over zip(package.path, key)
is_subkey(ppath, key) ==
    \A i \in 1..Min(Len(ppath), Len(key)) : ppath[i] = key[i]

\* the keys collected by the scan of mfdata, in iteration order
subkeys(d, ppath) ==
    LET hits == SelectSeq(d, LAMBDA e : is_subkey(ppath, e.key))
    IN  [i \in 1..Len(hits) |-> hits[i].key]

\* remove_package, the package_type_dict part
remove_type_dict(d, package) ==
    IF lower(package_type(package)) \in DOMAIN d
    THEN LET package_list == d[lower(package_type(package))]
             removed == IF InList(package, package_list)
                        THEN ListRemove(package_list, package)
                        ELSE package_list
         IN  IF Len(removed) = 0
             THEN DictDel(d, lower(package_type(package)))
             ELSE DictSet(d, lower(package_type(package)), removed)
    ELSE d

\* remove_package, the package_name_dict part, were the entry deleted only
\* when it is the package removed
remove_name_dict_own_entry(d, package) ==
    IF /\ package_name(package) # None
       /\ lower(package_name(package)) \in DOMAIN d
       /\ d[lower(package_name(package))] = package
    THEN DictDel(d, lower(package_name(package)))
    ELSE d

\* remove_package, the package_name_dict part
remove_name_dict(d, package) ==
    IF package_name(package) # None /\ lower(package_name(package)) \in DOMAIN d
    THEN DictDel(d, lower(package_name(package)))
    ELSE d

\* remove_package, the package_filename_dict part
remove_filename_dict(d, package) ==
    IF filename(package) # None /\ lower(filename(package)) \in DOMAIN d
    THEN DictDel(d, lower(filename(package)))
    ELSE d

\* remove_package, the mfdata part
remove_items(d, ppath) == SelectSeq(d, LAMBDA e : ~is_subkey(ppath, e.key))

remove_package(package) ==
    /\ packagelist' = IF InList(package, packagelist)
                      THEN ListRemove(packagelist, package)
                      ELSE packagelist
    /\ package_name_dict' = remove_name_dict(package_name_dict, package)
    /\ package_filename_dict' = remove_filename_dict(package_filename_dict, package)
    /\ package_type_dict' = remove_type_dict(package_type_dict, package)
    /\ mfdata' = remove_items(mfdata, path(package))
    /\ last' = [op |-> "remove", pkg |-> package, new_name |-> None, mfdata |-> mfdata]
    /\ UNCHANGED <<renamed, filevars, copyvars, callvars>>

\* the new_key expression of _rename_package
new_key(ppath, new_name, key) ==
    SliceTo(ppath, -1) \o << new_name >> \o SliceFrom(key, Len(ppath) - 1)

\* the loop "main_dict[new_key] = main_dict.pop(key)" over items_to_fix
RECURSIVE fix_keys(_, _, _, _)
fix_keys(d, items_to_fix, ppath, new_name) ==
    IF items_to_fix = << >> THEN d
    ELSE LET key == Head(items_to_fix)
             val == StoreGet(d, key)
         IN  fix_keys(StorePut(StoreDel(d, key), new_key(ppath, new_name, key), val),
                      Tail(items_to_fix), ppath, new_name)

\* the package_name_dict part of _rename_package, were the entry of the
\* package's name left in place
rename_name_dict_keeps_old(d, package, new_name) ==
    DictSet(d, lower(new_name), package)

\* _rename_package, the package_name_dict part
rename_name_dict(d, package, new_name) ==
    DictSet(remove_name_dict(d, package), lower(new_name), package)

\* The package renamed is one the registry holds; no key grows beyond
\* MaxKeyLen components.
_rename_package(package, new_name) ==
    /\ InList(package, packagelist)
    /\ LET items_to_fix == subkeys(mfdata, path(package))
       IN  /\ \A i \in 1..Len(items_to_fix) :
                 Len(new_key(path(package), new_name, items_to_fix[i])) <= MaxKeyLen
           /\ mfdata' = fix_keys(mfdata, items_to_fix, path(package), new_name)
    /\ package_name_dict' = rename_name_dict(package_name_dict, package, new_name)
    /\ last' = [op |-> "rename", pkg |-> package, new_name |-> new_name, mfdata |-> mfdata]
    /\ renamed' = renamed \cup {package}
    /\ UNCHANGED <<packagelist, package_type_dict, package_filename_dict, filevars, copyvars, callvars>>

-----------------------------------------------------------------------------
(* get_package.  The result is [kind, value]: kind "package" with the one  *)
(* package in value, kind "list" with a list of the registry itself in     *)
(* value, kind "copy" with a new list, kind "packagelist" with the         *)
(* registry's packagelist itself, or kind "None".                          *)

ReturnPackage(p) == [kind |-> "package", value |-> << p >>]

ReturnList(lst) == [kind |-> "list", value |-> lst]

\* lst[:]
ReturnCopy(lst) == [kind |-> "copy", value |-> lst]

ReturnNone == [kind |-> "None", value |-> << >>]

\* the loop over packagelist, were the last match returned
RECURSIVE partial_name_last_match(_, _)
partial_name_last_match(lst, name) ==
    IF lst = << >> THEN ReturnNone
    ELSE LET pp == lst[Len(lst)]
             full == lower(package_name(pp))
             cut == IF Len(full) > Len(name) THEN SubSeq(full, 1, Len(name)) ELSE full
         IN  IF package_name(pp) # None /\ lower(cut) = lower(name)
             THEN ReturnPackage(pp)
             ELSE partial_name_last_match(SubSeq(lst, 1, Len(lst) - 1), name)

\* the loop over packagelist that compares truncated names
RECURSIVE partial_name(_, _)
partial_name(lst, name) ==
    IF lst = << >> THEN ReturnNone
    ELSE LET pp == Head(lst)
             full == lower(package_name(pp))
             cut == IF Len(full) > Len(name) THEN SubSeq(full, 1, Len(name)) ELSE full
         IN  IF package_name(pp) # None /\ lower(cut) = lower(name)
             THEN ReturnPackage(pp)
             ELSE partial_name(Tail(lst), name)

\* get_package, were the type searched before the full name
get_package_type_first(name, type_only, name_only) ==
    IF name = None THEN ReturnCopy(packagelist)
    ELSE IF lower(name) \in DOMAIN package_type_dict /\ ~name_only
    THEN (IF Len(package_type_dict[lower(name)]) = 0 THEN ReturnNone
          ELSE IF Len(package_type_dict[lower(name)]) = 1
          THEN ReturnPackage(package_type_dict[lower(name)][1])
          ELSE ReturnList(package_type_dict[lower(name)]))
    ELSE IF lower(name) \in DOMAIN package_name_dict /\ ~type_only
    THEN ReturnPackage(package_name_dict[lower(name)])
    ELSE IF lower(name) \in DOMAIN package_filename_dict /\ ~type_only
    THEN ReturnPackage(package_filename_dict[lower(name)])
    ELSE IF ~type_only
    THEN partial_name(packagelist, name)
    ELSE ReturnNone

\* get_package, were the file names searched under type_only too
get_package_filename_always(name, type_only, name_only) ==
    IF name = None THEN ReturnCopy(packagelist)
    ELSE IF lower(name) \in DOMAIN package_name_dict /\ ~type_only
    THEN ReturnPackage(package_name_dict[lower(name)])
    ELSE IF lower(name) \in DOMAIN package_type_dict /\ ~name_only
    THEN (IF Len(package_type_dict[lower(name)]) = 0 THEN ReturnNone
          ELSE IF Len(package_type_dict[lower(name)]) = 1
          THEN ReturnPackage(package_type_dict[lower(name)][1])
          ELSE ReturnList(package_type_dict[lower(name)]))
    ELSE IF lower(name) \in DOMAIN package_filename_dict
    THEN ReturnPackage(package_filename_dict[lower(name)])
    ELSE IF ~type_only
    THEN partial_name(packagelist, name)
    ELSE ReturnNone

\* get_package, were packagelist returned and not its copy
get_package_own_list(name, type_only, name_only) ==
    IF name = None THEN [kind |-> "packagelist", value |-> packagelist]
    ELSE IF lower(name) \in DOMAIN package_name_dict /\ ~type_only
    THEN ReturnPackage(package_name_dict[lower(name)])
    ELSE IF lower(name) \in DOMAIN package_type_dict /\ ~name_only
    THEN (IF Len(package_type_dict[lower(name)]) = 0 THEN ReturnNone
          ELSE IF Len(package_type_dict[lower(name)]) = 1
          THEN ReturnPackage(package_type_dict[lower(name)][1])
          ELSE ReturnList(package_type_dict[lower(name)]))
    ELSE IF lower(name) \in DOMAIN package_filename_dict /\ ~type_only
    THEN ReturnPackage(package_filename_dict[lower(name)])
    ELSE IF ~type_only
    THEN partial_name(packagelist, name)
    ELSE ReturnNone

get_package(name, type_only, name_only) ==
    IF name = None THEN ReturnCopy(packagelist)
    ELSE IF lower(name) \in DOMAIN package_name_dict /\ ~type_only
    THEN ReturnPackage(package_name_dict[lower(name)])
    ELSE IF lower(name) \in DOMAIN package_type_dict /\ ~name_only
    THEN (IF Len(package_type_dict[lower(name)]) = 0 THEN ReturnNone
          ELSE IF Len(package_type_dict[lower(name)]) = 1
          THEN ReturnPackage(package_type_dict[lower(name)][1])
          ELSE ReturnList(package_type_dict[lower(name)]))
    ELSE IF lower(name) \in DOMAIN package_filename_dict /\ ~type_only
    THEN ReturnPackage(package_filename_dict[lower(name)])
    ELSE IF ~type_only
    THEN partial_name(packagelist, name)
    ELSE ReturnNone

\* A caller of get_package() empties the list it was given: a copy takes
\* the change, the registry's own list would pass it on to the registry.
clear_returned_list ==
    LET returned == get_package(None, FALSE, FALSE)
    IN  /\ returned.value # << >>
        /\ packagelist' = IF returned.kind = "packagelist" THEN << >> ELSE packagelist
        /\ UNCHANGED <<package_type_dict, package_name_dict, package_filename_dict,
                       mfdata, last, renamed, filevars, copyvars, callvars>>

\* the name arguments of get_package
Queries == { <<"a","b">>, <<"A","B">>, <<"A","b">>, <<"a","B">>,
             <<"w">>, <<"W">>, <<"a","b","c">>, <<"a">>, <<"f">>,
             <<"Z">>, <<"q">>, << >> }

-----------------------------------------------------------------------------
(* _in_pkg_list.  The outcome is "True", "False" or the name of the error  *)
(* raised.                                                                 *)

Digits == { "0", "1", "2", "3", "4", "5", "6", "7", "8", "9" }

\* s.split(sep)
RECURSIVE split_by(_, _)
split_by(s, sep) ==
    IF \A i \in 1..Len(s) : s[i] # sep THEN << s >>
    ELSE LET i == CHOOSE k \in 1..Len(s) :
                      s[k] = sep /\ \A j \in 1..(k - 1) : s[j] # sep
         IN  << SubSeq(s, 1, i - 1) >> \o split_by(SubSeq(s, i + 1, Len(s)), sep)

\* the loop over zip(key, pkg_type): no item differs from the key's item
\* both as it is and without its last character
items_match(key, pkg_type) ==
    \A i \in 1..Min(Len(key), Len(pkg_type)) :
        ~(SliceTo(pkg_type[i], -1) # key[i] /\ pkg_type[i] # key[i])

\* pkg_list is the set of the keys of the dictionary
_in_pkg_list(pkg_list, pkg_type, pkg_name) ==
    LET type_lower == IF pkg_type # None THEN lower(pkg_type) ELSE None
        name_lower == IF pkg_name # None THEN lower(pkg_name) ELSE None
    IN  IF type_lower \in pkg_list \/ name_lower \in pkg_list THEN "True"
        ELSE IF type_lower = None THEN "AttributeError"
        ELSE LET items == split_by(type_lower, "-")
             IN  IF items[1] = << >> THEN "IndexError"
                 ELSE IF items[1][Len(items[1])] \notin Digits THEN "False"
                 ELSE IF \E key \in pkg_list :
                            /\ Len(split_by(key, "-")) = Len(items)
                            /\ items_match(split_by(key, "-"), items)
                 THEN "True"
                 ELSE "False"

\* the keys of pkg_list and the pkg_type and pkg_name arguments
PkgKeys == { << "g", "w" >>, << "g", "w", "-", "r" >>, << "r" >>, << "g", "w", "6" >> }

PkgTypes == { << "g", "w", "6" >>, << "G", "W", "6" >>, << "g", "w" >>,
              << "g", "w", "6", "-", "r" >>, << "g", "w", "6", "-", "r", "x" >>,
              << "g", "w", "6", "-", "r", "1" >>, << "g", "w", "x", "-", "r", "1" >>,
              << "x" >>, << >>, << "-", "r" >>, None }

PkgNames == { << "r", "-", "1" >>, << "R" >>, None }

\* the arguments of one _in_pkg_list call, beside an empty registry
PkgInit ==
    /\ EmptyRegistry
    /\ mfdata = << >>
    /\ NewFileMgmt(<< "/", "r" >>)
    /\ EmptyDisk
    /\ \E pkg_list \in SUBSET PkgKeys, pkg_type \in PkgTypes, pkg_name \in PkgNames :
          in_pkg_list = [pkg_list |-> pkg_list, pkg_type |-> pkg_type,
                         pkg_name |-> pkg_name, result |-> "pending"]

\* the call
call_in_pkg_list ==
    /\ in_pkg_list.result = "pending"
    /\ in_pkg_list' =
          [in_pkg_list EXCEPT !.result = _in_pkg_list(in_pkg_list.pkg_list,
                                                      in_pkg_list.pkg_type,
                                                      in_pkg_list.pkg_name)]
    /\ UNCHANGED <<regvars, filevars, copyvars>>

Next ==
    \/ \E package \in Packages : add_package(package)
    \/ \E package \in Packages : remove_package(package)
    \/ \E package \in Packages, new_name \in NewNames : _rename_package(package, new_name)
    \/ clear_returned_list

Spec == Init /\ [][Next]_vars

StoreNext ==
    \/ \E package \in StorePackages : add_package(package)
    \/ \E package \in StorePackages : remove_package(package)
    \/ \E package \in StorePackages, new_name \in StoreNewNames :
          _rename_package(package, new_name)

StoreSpec == StoreInit /\ [][StoreNext]_vars

FileNext ==
    \/ \E p \in RootInputs : set_sim_path(p)
    \/ set_last_accessed_path
    \/ set_last_accessed_model_path
    \/ \E key \in ModelNames, rel \in RelativePaths : set_model_relative_path(key, rel)

FileSpec == FileInit /\ [][FileNext]_vars

CopyNext ==
    \/ \E p \in CopyRoots : set_sim_path(p)
    \/ set_last_accessed_path
    \/ \E file_path \in ExtFiles, model_name \in CopyModels :
          add_ext_file(file_path, model_name)
    \/ \E copy_relative_only \in BOOLEAN, fail_at \in 0..MaxFiles :
          copy_files(copy_relative_only, fail_at)

CopySpec == CopyInit /\ [][CopyNext]_vars

ExtNext ==
    \/ \E file_path \in ExtFiles, model_name \in ModelNames :
          add_ext_file(file_path, model_name)
    \/ set_last_accessed_path
    \/ copy_files(TRUE, 0)

ExtSpec == Init /\ [][ExtNext]_vars

PkgNext == call_in_pkg_list

PkgSpec == PkgInit /\ [][PkgNext]_vars

-----------------------------------------------------------------------------
(* Properties of the registry and of mfdata *)

\* key starts with all the components of ppath
HasPrefix(key, ppath) ==
    Len(key) >= Len(ppath) /\ SubSeq(key, 1, Len(ppath)) = ppath

\* the entries of the mfdata a call started from
Before == {last.mfdata[i] : i \in 1..Len(last.mfdata)}

\* p's name differs, whatever the letter case, from every other package's
\* name and from every name a rename gives
UniqueName(p) ==
    /\ \A q \in Packages \ {p} : lower(package_name(q)) # lower(package_name(p))
    /\ \A n \in NewNames : lower(n) # lower(package_name(p))

\* p is listed under its own name: it has one, no other package or rename
\* uses it, and p was not renamed since it was added
NamedInRegistry(p) ==
    /\ InList(p, packagelist)
    /\ package_name(p) # None
    /\ UniqueName(p)
    /\ p \notin renamed

\* the packages of packagelist whose type is name up to letter case, in list order
OfType(name) ==
    SelectSeq(packagelist, LAMBDA p : lower(package_type(p)) = lower(name))

\* p is in none of the four structures
InNoStructure(p) ==
    /\ ~InList(p, packagelist)
    /\ \A k \in DOMAIN package_name_dict : package_name_dict[k] # p
    /\ \A k \in DOMAIN package_type_dict : ~InList(p, package_type_dict[k])
    /\ \A k \in DOMAIN package_filename_dict : package_filename_dict[k] # p

\* C1: every package of packagelist is in the package_type_dict list of its
\* lower-cased type and, when it is listed under its own name, is the
\* package_name_dict entry of its lower-cased name, after any adds, removes
\* and renames.
C1_IndexesCoverList ==
    \A i \in 1..Len(packagelist) :
        LET p == packagelist[i]
        IN  /\ lower(package_type(p)) \in DOMAIN package_type_dict
            /\ InList(p, package_type_dict[lower(package_type(p))])
            /\ NamedInRegistry(p) =>
                  /\ lower(package_name(p)) \in DOMAIN package_name_dict
                  /\ package_name_dict[lower(package_name(p))] = p

\* C2: _rename_package moves every entry whose key is package.path + s to
\* the key package.path[:-1] + (new_name,) + s, with its value, and the old
\* key is gone.
C2_RenameRekeysOwnedKeys ==
    last.op = "rename" =>
        \A e \in Before :
            HasPrefix(e.key, path(last.pkg)) =>
                LET s == SubSeq(e.key, Len(path(last.pkg)) + 1, Len(e.key))
                    k == SliceTo(path(last.pkg), -1) \o << last.new_name >> \o s
                IN  /\ StoreHas(mfdata, k)
                    /\ StoreGet(mfdata, k) = e.val
                    /\ Len(k) = Len(e.key)
                    /\ k # e.key => ~StoreHas(mfdata, e.key)

\* C3: after remove_package no key of mfdata starts with package.path.
C3_RemoveDeletesOwnedKeys ==
    last.op = "remove" =>
        \A key \in StoreKeys(mfdata) : ~HasPrefix(key, path(last.pkg))

\* remove_package ran on an mfdata holding package.path itself, a longer key
\* of the package and a key of nobody's
C3_Witness ==
    /\ last.op = "remove"
    /\ \E e \in Before : e.key = path(last.pkg)
    /\ \E e \in Before : HasPrefix(e.key, path(last.pkg)) /\ Len(e.key) > Len(path(last.pkg))
    /\ mfdata # << >>

\* C4: remove_package keeps, with its value, every entry whose key does not
\* start with package.path.
C4_RemoveKeepsOtherKeys ==
    last.op = "remove" =>
        \A e \in Before :
            ~HasPrefix(e.key, path(last.pkg)) =>
                StoreHas(mfdata, e.key) /\ StoreGet(mfdata, e.key) = e.val

\* C5: _rename_package keeps, under its key and with its value, every entry
\* whose key does not start with package.path, and the number of entries.
C5_RenameKeepsOtherKeys ==
    last.op = "rename" =>
        /\ \A e \in Before :
              ~HasPrefix(e.key, path(last.pkg)) =>
                  StoreHas(mfdata, e.key) /\ StoreGet(mfdata, e.key) = e.val
        /\ Len(mfdata) = Len(last.mfdata)

\* C6: after remove_package the package is in none of packagelist,
\* package_name_dict, package_type_dict and package_filename_dict, renamed
\* before or not.
C6_RemovedFromAllStructures ==
    last.op = "remove" => InNoStructure(last.pkg)

\* C7: get_package(q) with the default flags returns the package listed
\* under the name n for every q equal to n up to letter case, whatever
\* types, filenames and longer names q also matches.
C7_ExactNameFirst ==
    \A p \in Packages, q \in Queries :
        NamedInRegistry(p) /\ lower(q) = lower(package_name(p)) =>
            get_package(q, FALSE, FALSE) = ReturnPackage(p)

\* a package is listed under a name that is also a type and a filename of
\* the registry and the start of the name of a package added before it
C7_Witness ==
    \E p \in Packages :
        /\ NamedInRegistry(p)
        /\ lower(package_name(p)) \in DOMAIN package_type_dict
        /\ lower(package_name(p)) \in DOMAIN package_filename_dict
        /\ partial_name(packagelist, package_name(p)) # ReturnPackage(p)
        /\ partial_name(packagelist, package_name(p)) # ReturnNone

\* C8: when q is no package's name and k >= 1 packages of packagelist have
\* the type q up to letter case, get_package(q) returns the package for
\* k = 1 and the k packages in insertion order for k > 1.
C8_TypeLookup ==
    \A q \in Queries :
        (/\ lower(q) \notin DOMAIN package_name_dict
         /\ \A p \in Packages : lower(q) # lower(package_name(p))
         /\ Len(OfType(q)) >= 1) =>
            get_package(q, FALSE, FALSE) =
                IF Len(OfType(q)) = 1 THEN ReturnPackage(OfType(q)[1])
                ELSE ReturnList(OfType(q))

\* C16: get_package() without a name returns a new list holding the
\* packages of packagelist in their order, whatever the flags and also for
\* the empty registry, and a caller changing that list changes none of
\* packagelist and the three dictionaries.
C16_FindAllIsCopy ==
    /\ [](\A type_only \in BOOLEAN, name_only \in BOOLEAN :
             get_package(None, type_only, name_only) = ReturnCopy(packagelist))
    /\ [][clear_returned_list =>
             UNCHANGED <<packagelist, package_type_dict, package_name_dict,
                         package_filename_dict>>]_vars

\* a registry of three packages, listed in another order than that of their
\* catalog, after one of them was removed and added again: the list
\* returned holds the three in the order of packagelist
C16_Witness ==
    /\ Len(packagelist) = 3
    /\ packagelist[1] > packagelist[2]
    /\ last.op = "add"
    /\ last.pkg = packagelist[3]
    /\ get_package(None, FALSE, FALSE).kind = "copy"
    /\ get_package(None, FALSE, FALSE).value = packagelist

\* C18: after _rename_package(package, new_name) package_name_dict maps
\* the lower-cased new_name to the package and, when package.package_name
\* differs from new_name up to letter case, has no entry under the
\* lower-cased package.package_name; the step leaves packagelist,
\* package_type_dict and package_filename_dict as they were.
C18_RenameReindexesName ==
    /\ [](last.op = "rename" =>
             /\ lower(last.new_name) \in DOMAIN package_name_dict
             /\ package_name_dict[lower(last.new_name)] = last.pkg
             /\ (/\ package_name(last.pkg) # None
                 /\ lower(package_name(last.pkg)) # lower(last.new_name)) =>
                   lower(package_name(last.pkg)) \notin DOMAIN package_name_dict)
    /\ [][last'.op = "rename" =>
             UNCHANGED <<packagelist, package_type_dict, package_filename_dict>>]_vars

\* the package named "Ab" was renamed to "Z" in a registry of three
\* packages, another of them named, two with filenames
C18_Witness ==
    /\ last.op = "rename"
    /\ last.pkg = 1
    /\ last.new_name = << "Z" >>
    /\ Len(packagelist) = 3
    /\ DOMAIN package_name_dict = { << "z" >>, << "a", "b", "c" >> }
    /\ Cardinality(DOMAIN package_filename_dict) = 2

\* the name of p starts with q, up to letter case
Prefixed(p, q) ==
    /\ package_name(p) # None
    /\ Len(package_name(p)) >= Len(q)
    /\ lower(SubSeq(package_name(p), 1, Len(q))) = lower(q)

\* the first package of packagelist whose name starts with q, or None
FirstPrefixed(q) ==
    LET hits == {i \in 1..Len(packagelist) : Prefixed(packagelist[i], q)}
    IN  IF hits = {} THEN ReturnNone
        ELSE ReturnPackage(packagelist[CHOOSE i \in hits : \A j \in hits : i <= j])

\* the answer of package_type_dict to q
TypeAnswer(q) ==
    IF lower(q) \notin DOMAIN package_type_dict THEN ReturnNone
    ELSE IF Len(package_type_dict[lower(q)]) = 0 THEN ReturnNone
    ELSE IF Len(package_type_dict[lower(q)]) = 1
    THEN ReturnPackage(package_type_dict[lower(q)][1])
    ELSE ReturnList(package_type_dict[lower(q)])

\* the answer of the names, the file names and the starts of names to q
NameAnswer(q) ==
    IF lower(q) \in DOMAIN package_name_dict
    THEN ReturnPackage(package_name_dict[lower(q)])
    ELSE IF lower(q) \in DOMAIN package_filename_dict
    THEN ReturnPackage(package_filename_dict[lower(q)])
    ELSE FirstPrefixed(q)

\* C19: with type_only get_package(q) is the answer of package_type_dict
\* alone, None when q is only a name, a file name or the start of a name;
\* with name_only it is the answer of the names, the file names and the
\* starts of names, in which package_type_dict has no part; with both
\* flags no layer is left and it is None.
C19_FlagsRestrictLayers ==
    \A q \in Queries :
        /\ get_package(q, TRUE, FALSE) = TypeAnswer(q)
        /\ get_package(q, FALSE, TRUE) = NameAnswer(q)
        /\ get_package(q, TRUE, TRUE) = ReturnNone

\* "ab" is a name, a type and a file name and the flags give different
\* packages for it; "f" is a file name only and "w" a type only
C19_Witness ==
    /\ get_package(<< "a", "b" >>, TRUE, FALSE) # ReturnNone
    /\ get_package(<< "a", "b" >>, FALSE, TRUE) # ReturnNone
    /\ get_package(<< "a", "b" >>, TRUE, FALSE) # get_package(<< "a", "b" >>, FALSE, TRUE)
    /\ << "a", "b" >> \in DOMAIN package_filename_dict
    /\ get_package(<< "f" >>, TRUE, FALSE) = ReturnNone
    /\ get_package(<< "f" >>, FALSE, TRUE) # ReturnNone
    /\ get_package(<< "w" >>, FALSE, TRUE) = ReturnNone
    /\ get_package(<< "w" >>, TRUE, FALSE) # ReturnNone

\* C20: when q is no key of package_name_dict, package_type_dict and
\* package_filename_dict and type_only is not set, get_package(q) returns
\* the first package of packagelist that has a name whose first len(q)
\* characters are q up to letter case, and None when there is none; a
\* package without a name is not returned.
C20_PartialNameFallback ==
    \A q \in Queries, name_only \in BOOLEAN :
        (/\ lower(q) \notin DOMAIN package_name_dict
         /\ lower(q) \notin DOMAIN package_type_dict
         /\ lower(q) \notin DOMAIN package_filename_dict) =>
            /\ get_package(q, FALSE, name_only) = FirstPrefixed(q)
            /\ \A p \in Packages :
                  package_name(p) = None =>
                      get_package(q, FALSE, name_only) # ReturnPackage(p)

\* "a" is no name, type or file name; the package without a name is listed
\* first and two packages whose names start with "a" follow, the one
\* listed first of them returned; and nothing starts with "q"
C20_Witness ==
    /\ Len(packagelist) = 3
    /\ package_name(packagelist[1]) = None
    /\ Prefixed(packagelist[2], << "a" >>)
    /\ Prefixed(packagelist[3], << "a" >>)
    /\ get_package(<< "a" >>, FALSE, FALSE) = ReturnPackage(packagelist[2])
    /\ get_package(<< "q" >>, FALSE, FALSE) = ReturnNone
    /\ get_package(<< >>, FALSE, FALSE) = ReturnPackage(packagelist[2])

-----------------------------------------------------------------------------
(* Properties of the path management *)

\* p without its quote characters
Unquoted(p) == SelectSeq(p, LAMBDA c : c \notin {"'", "\""})

\* q under the folder root: root, a separator unless root ends in one, q
Under(root, q) ==
    IF root[Len(root)] = "/" THEN root \o q ELSE root \o << "/" >> \o q

\* the join of root and q: q itself when absolute, q under root otherwise
Joined(root, q) ==
    IF q # << >> /\ Head(q) = "/" THEN q ELSE Under(root, q)

\* what resolving p against root is to give
Resolved(root, p, force_into_root) ==
    LET q == Unquoted(p)
    IN  IF q # << >> /\ Head(q) = "/" /\ force_into_root THEN root
        ELSE Joined(root, q)

\* C9: resolve_path gives, for quote-stripped p, the selected root's join
\* with p when p is relative, p itself when p is absolute, and the selected
\* root when p is absolute and move_abs_paths is set; the selected root is
\* the last loaded one under last_loaded_path and the current one otherwise.
C9_ResolveIsReference ==
    \A p \in PathSpecs, last_loaded_path \in BOOLEAN, move_abs_paths \in BOOLEAN :
        LET root == IF last_loaded_path THEN last_loaded_sim_path ELSE sim_path
        IN  root # None =>
                resolve_path(p, last_loaded_path, move_abs_paths)
                    = Resolved(root, p, move_abs_paths)

\* the root moved after a snapshot, and a quoted absolute path and a
\* relative path resolve against the two roots
C9_Witness ==
    /\ last_loaded_sim_path # None
    /\ last_loaded_sim_path # sim_path
    /\ resolve_path(<< "'", "/", "a", "'" >>, TRUE, TRUE) = last_loaded_sim_path
    /\ resolve_path(<< "'", "/", "a", "'" >>, FALSE, FALSE) = << "/", "a" >>
    /\ resolve_path(<< "a" >>, TRUE, FALSE) # resolve_path(<< "a" >>, FALSE, FALSE)

\* C10: from set_last_accessed_path on, whatever set_sim_path and the
\* models' registrations do, resolve_path and get_model_path with
\* last_loaded_path give the results of the root and the relative paths as
\* they were when copied, and without it those of the current ones.
C10_SnapshotKept ==
    last_loaded_sim_path # None =>
        /\ \A p \in PathSpecs, move_abs_paths \in BOOLEAN :
              /\ resolve_path(p, TRUE, move_abs_paths)
                    = Resolved(loaded.sim_path, p, move_abs_paths)
              /\ resolve_path(p, FALSE, move_abs_paths)
                    = Resolved(sim_path, p, move_abs_paths)
        /\ \A key \in DOMAIN loaded.model_relative_path :
              get_model_path(key, TRUE)
                  = Joined(loaded.sim_path, loaded.model_relative_path[key])
        /\ \A key \in DOMAIN model_relative_path :
              get_model_path(key, FALSE)
                  = Joined(sim_path, model_relative_path[key])

\* after a snapshot the root moved, a model of the snapshot changed its
\* folder and another model registered
C10_Witness ==
    /\ last_loaded_sim_path # None
    /\ sim_path # loaded.sim_path
    /\ \E key \in DOMAIN loaded.model_relative_path :
          model_relative_path[key] # loaded.model_relative_path[key]
    /\ \E key \in DOMAIN model_relative_path :
          key \notin DOMAIN loaded.model_relative_path

\* C11: for a model name without a registered relative path get_model_path
\* returns the root and raises nothing: the current root without
\* last_loaded_path, and the last loaded root with it, also for a model
\* that registered only after the roots were last copied.
C11_UnregisteredModelPath ==
    \A key \in ModelNames :
        /\ key \notin DOMAIN model_relative_path =>
              get_model_path(key, FALSE) = sim_path
        /\ (last_loaded_sim_path # None
             /\ key \notin DOMAIN loaded.model_relative_path) =>
              get_model_path(key, TRUE) = last_loaded_sim_path

\* the relative path registered for the model names a folder below the
\* root: it is not absolute, not empty and not "."
NonTrivial(model_name) ==
    /\ model_name \in DOMAIN model_relative_path
    /\ model_relative_path[model_name] \notin { << >>, << "." >> }
    /\ Head(model_relative_path[model_name]) # "/"

\* t is written without empty and "." components and is not empty
Plain(t) ==
    /\ t # << >>
    /\ \A i \in 1..Len(split_by(t, "/")) :
          split_by(t, "/")[i] \notin { << >>, << "." >> }

\* a model without a non-trivial relative path gets its path back
StripKeepsPath(model_name) ==
    ~NonTrivial(model_name) =>
        \A t \in Tails :
            /\ strip_model_relative_path(model_name, t) = t
            /\ model_name \in DOMAIN model_relative_path =>
                  strip_model_relative_path(
                      model_name, join(model_relative_path[model_name], t))
                    = join(model_relative_path[model_name], t)

\* C17 as stated: for a model with a non-trivial relative path r and any
\* tail t, strip_model_relative_path(model, join(r, t)) is t; a model with
\* an unset, absolute, empty or "." relative path gets its path back
\* unchanged.
C17_StripAnyTail ==
    \A model_name \in ModelNames :
        /\ NonTrivial(model_name) =>
              \A t \in Tails :
                  strip_model_relative_path(
                      model_name, join(model_relative_path[model_name], t)) = t
        /\ StripKeepsPath(model_name)

\* C17 amended: for a model with a non-trivial relative path r and any
\* tail t written without empty and "." components,
\* strip_model_relative_path(model, join(r, t)) is t; a model with an
\* unset, absolute, empty or "." relative path gets its path back unchanged.
C17_StripPlainTail ==
    \A model_name \in ModelNames :
        /\ NonTrivial(model_name) =>
              \A t \in Tails :
                  Plain(t) =>
                      strip_model_relative_path(
                          model_name, join(model_relative_path[model_name], t)) = t
        /\ StripKeepsPath(model_name)

\* one model's folder is two levels below the root and its prefix is
\* stripped from a plain tail; the other's relative path is "."
C17_Witness ==
    /\ "m1" \in DOMAIN model_relative_path
    /\ "m2" \in DOMAIN model_relative_path
    /\ model_relative_path["m1"] = << "x", "/", "y" >>
    /\ model_relative_path["m2"] = << "." >>
    /\ strip_model_relative_path("m1", << "x", "/", "y", "/", "a", "/", "b" >>)
          = << "a", "/", "b" >>
    /\ strip_model_relative_path("m2", << ".", "/", "a" >>) = << ".", "/", "a" >>

\* p is in the package_type_dict list of its lower-cased type
InTypeDict(d, p) ==
    /\ lower(package_type(p)) \in DOMAIN d
    /\ InList(p, d[lower(package_type(p))])

\* C21: remove_package(package) leaves no package_name_dict entry under the
\* lower-cased package.package_name, whichever package the entry held, and
\* every other package stays in packagelist and in the package_type_dict
\* list it was in: after add_package(p), add_package(q) with the same name
\* up to letter case and remove_package(p), the name has no entry although
\* q is in packagelist and in package_type_dict.
C21_RemoveDeletesNameEntry ==
    [][\A p \in Packages :
          remove_package(p) =>
              /\ package_name(p) # None =>
                    lower(package_name(p)) \notin DOMAIN package_name_dict'
              /\ \A q \in Packages \ {p} :
                    /\ InList(q, packagelist) => InList(q, packagelist')
                    /\ InTypeDict(package_type_dict, q) =>
                          InTypeDict(package_type_dict', q)]_vars

\* a package was removed whose name, up to letter case, is that of another
\* package, which is in packagelist and in package_type_dict and was never
\* renamed, and the name has no entry
C21_Witness ==
    /\ last.op = "remove"
    /\ ~InList(last.pkg, packagelist)
    /\ package_name(last.pkg) # None
    /\ lower(package_name(last.pkg)) \notin DOMAIN package_name_dict
    /\ \E q \in Packages \ {last.pkg} :
          /\ package_name(q) # None
          /\ lower(package_name(q)) = lower(package_name(last.pkg))
          /\ InList(q, packagelist)
          /\ InTypeDict(package_type_dict, q)
          /\ q \notin renamed

-----------------------------------------------------------------------------
(* Properties of the external files *)

\* the path specification names an absolute path
Absolute(file_path) ==
    Unquoted(file_path) # << >> /\ Head(Unquoted(file_path)) = "/"

\* the old and the new concrete path of the i-th record
OldPath(i) == Resolved(last_loaded_sim_path, existing_file_dict[i].file_path, FALSE)

NewPath(i) == Resolved(sim_path, existing_file_dict[i].file_path, FALSE)

\* the i-th record is to be copied from a disk holding the files fs
Due(fs, i, copy_relative_only) ==
    /\ last_loaded_sim_path # None
    /\ OldPath(i) \in fs
    /\ ~Absolute(existing_file_dict[i].file_path) \/ ~copy_relative_only
    /\ OldPath(i) # NewPath(i)

\* the files on the disk when the i-th record's turn comes: those of the
\* start and the copies made for the records before it
RECURSIVE DiskAt(_, _)
DiskAt(i, copy_relative_only) ==
    IF i = 1 THEN files
    ELSE LET fs == DiskAt(i - 1, copy_relative_only)
         IN  IF Due(fs, i - 1, copy_relative_only)
             THEN fs \cup {NewPath(i - 1)} ELSE fs

\* the records to be copied by one call
DueRecords(copy_relative_only) ==
    {i \in 1..Len(existing_file_dict) :
        Due(DiskAt(i, copy_relative_only), i, copy_relative_only)}

\* C12: a copy_files call in which no copy fails copies the records for
\* which the roots were copied before, the old path is a file on the disk
\* when the record's turn comes, the path specification is not absolute
\* or copy_relative_only is false, and the old path differs from the new
\* one; it copies no other record and returns the number of records
\* copied.  Before the roots were ever copied it returns 0, copies no file
\* and makes no folder.
C12_CopiesDueRecords ==
    [][\A copy_relative_only \in BOOLEAN :
          copy_files(copy_relative_only, 0) =>
              /\ copied'.outcome =
                    [kind |-> "return",
                     num_files_copied |-> Cardinality(DueRecords(copy_relative_only)),
                     error |-> "none"]
              /\ files' = files \cup {NewPath(i) : i \in DueRecords(copy_relative_only)}
              /\ last_loaded_sim_path # None =>
                    /\ Len(copied'.steps) = Len(existing_file_dict)
                    /\ \A i \in 1..Len(existing_file_dict) :
                          copied'.steps[i] <=> i \in DueRecords(copy_relative_only)
              /\ last_loaded_sim_path = None =>
                    /\ copied'.outcome.num_files_copied = 0
                    /\ files' = files
                    /\ folders' = folders]_vars

\* a call without copy_relative_only copied one record and left the
\* record of an absolute path, whose file is on the disk, where it was
C12_Witness ==
    /\ copied.op = "copy_files"
    /\ ~copied.copy_relative_only
    /\ copied.outcome.kind = "return"
    /\ copied.outcome.num_files_copied = 1
    /\ \E i \in 1..Len(copied.steps) :
          /\ ~copied.steps[i]
          /\ existing_file_dict[i].file_path = << "/", "a" >>
          /\ << "/", "a" >> \in files

\* C22: no copy_files call copies a record whose path specification,
\* its quote characters taken out, is absolute, whatever copy_relative_only
\* is, whatever the roots are and whether or not a copyfile call fails: the
\* old and the new path of such a record are equal, and the number of
\* files copied is the number of records copied that are not absolute.
C22_AbsoluteNeverCopied ==
    [][\A copy_relative_only \in BOOLEAN, fail_at \in 0..MaxFiles :
          copy_files(copy_relative_only, fail_at) =>
              /\ \A i \in 1..Len(existing_file_dict) :
                    Absolute(existing_file_dict[i].file_path) =>
                        /\ resolve_path(existing_file_dict[i].file_path, TRUE, FALSE)
                              = resolve_path(existing_file_dict[i].file_path, FALSE, FALSE)
                        /\ i \in 1..Len(copied'.steps) => ~copied'.steps[i]
              /\ copied'.outcome.num_files_copied =
                    Cardinality({i \in 1..Len(copied'.steps) :
                                    /\ copied'.steps[i]
                                    /\ ~Absolute(existing_file_dict[i].file_path)})]_vars

\* after the root changed, a call copied the record of a relative path and
\* left the record of the quoted absolute path '/a', a file on the disk
\* which the copy_relative_only test lets through, where it was
C22_Witness ==
    /\ copied.op = "copy_files"
    /\ copied.copy_relative_only
    /\ last_loaded_sim_path # None
    /\ last_loaded_sim_path # sim_path
    /\ copied.outcome.num_files_copied = 1
    /\ Len(copied.steps) = Len(existing_file_dict)
    /\ \E i \in 1..Len(copied.steps) :
          /\ ~copied.steps[i]
          /\ existing_file_dict[i].file_path = << "'", "/", "a", "'" >>
          /\ << "/", "a" >> \in files

\* C13: when a copyfile call of copy_files raises, the call ends there
\* raising MFDataException and no other error, with no record after the
\* failing one copied.
C13_CopyFailureRaisesDataError ==
    copied.outcome.kind = "raise" =>
        /\ copied.outcome.error = "MFDataException"
        /\ copied.steps # << >>
        /\ ~copied.steps[Len(copied.steps)]

\* C14: no step takes a record out of existing_file_dict, changes its
\* file_path or takes a model name from it, and add_ext_file called again
\* with the arguments of a call just made leaves existing_file_dict as
\* that call left it.
C14_FilesAppendOnly ==
    [][/\ \A i \in 1..Len(existing_file_dict) :
             \E j \in 1..Len(existing_file_dict') :
                 /\ existing_file_dict'[j].file_path = existing_file_dict[i].file_path
                 /\ existing_file_dict[i].model_name \subseteq existing_file_dict'[j].model_name
       /\ \A file_path \in ExtFiles, model_name \in ModelNames :
             add_ext_file(file_path, model_name) =>
                 /\ HasFile(existing_file_dict', file_path)
                 /\ add_ext_file_dict(existing_file_dict', file_path, model_name)
                       = existing_file_dict']_vars

\* two records, one of them named by two models, after a copy_files call
C14_Witness ==
    /\ Len(existing_file_dict) = 2
    /\ \E i \in 1..2 : Cardinality(existing_file_dict[i].model_name) = 2
    /\ copied.op = "copy_files"

-----------------------------------------------------------------------------
(* Properties of _in_pkg_list *)

\* s without its last character when that is a digit
StripDigit(s) ==
    IF s # << >> /\ s[Len(s)] \in Digits THEN SubSeq(s, 1, Len(s) - 1) ELSE s

\* key matches the lower-cased query q segment by segment
SegmentsMatch(key, q) ==
    LET ks == split_by(key, "-")
        qs == split_by(q, "-")
    IN  /\ Len(ks) = Len(qs)
        /\ \A i \in 1..Len(ks) : ks[i] = qs[i] \/ ks[i] = StripDigit(qs[i])

\* the first segment of q ends in a digit
VersionedType(q) ==
    LET first == split_by(q, "-")[1]
    IN  first # << >> /\ first[Len(first)] \in Digits

\* what a call with these arguments is to answer
Listed(pkg_list, pkg_type, pkg_name) ==
    \/ pkg_type # None /\ lower(pkg_type) \in pkg_list
    \/ pkg_name # None /\ lower(pkg_name) \in pkg_list
    \/ /\ pkg_type # None
       /\ VersionedType(lower(pkg_type))
       /\ \E key \in pkg_list : SegmentsMatch(key, lower(pkg_type))

\* C15: a call of _in_pkg_list that returns gives True exactly when the
\* lower-cased pkg_type or pkg_name is a key of pkg_list, or the first
\* hyphen segment of pkg_type ends in a digit and some key has as many
\* segments, each equal to the query's segment or to that segment without
\* its trailing digit; it gives False otherwise.
C15_InPkgList ==
    in_pkg_list.result \in {"True", "False"} =>
        (in_pkg_list.result = "True"
            <=> Listed(in_pkg_list.pkg_list, in_pkg_list.pkg_type, in_pkg_list.pkg_name))

\* C23: _in_pkg_list returns True or False for every pkg_list, pkg_type and
\* pkg_name and raises no error, also for an empty pkg_type, a pkg_type
\* whose first item of the split at "-" is empty, and a pkg_type of None
\* with a pkg_name that is no key.
C23_InPkgListTotal ==
    in_pkg_list.result \in {"pending", "True", "False"}

====
